---- MODULE Spec2Model ----
(***************************************************************************)
(* Fracture Risk Calculator (src/app.py): the Streamlit script as a state  *)
(* machine of script runs, and its scoring code as operators.              *)
(*                                                                         *)
(* Numbers are exact fixed-point decimals:                                 *)
(*   age                      years                                        *)
(*   weight, height_cm, bmi   tenths        (70.0 kg is 700)               *)
(*   femoral_neck_bmd         hundredths    (0.71 g/cm2 is 71)             *)
(*   weights, score           thousandths   (-3.115 is -3115)              *)
(*   screening_index          tenths        (4.2 is 42)                    *)
(* Every weight of the source is a multiple of 0.001 and every input of    *)
(* the model lies on these grids, so the linear predictor is computed      *)
(* without loss.  A script-local variable is a sequence: <<>> while the    *)
(* run has not bound it, <<v>> once it holds v.                            *)
(***************************************************************************)
EXTENDS Integers, Sequences, FiniteSets, TLC

VARIABLES
    phase,             \* "connected": session open, script not yet run;
                       \* "submitted": the form's values are in, the run is due;
                       \* "bands": screening_index is bound, the bands are due;
                       \* "rendered": the run has ended and the page stands
    typed,             \* the form's widgets in the browser
    input,             \* the widgets' values as the script's last run read them
    trigger,           \* what caused the last run: load, submit, download, rerun
    submitted,         \* app.py:76, the submit button's return value in the last run
    error,             \* the exception that ended the last run, <<>> if none
    bmi,               \* app.py:56
    score,             \* app.py:98-113
    screening_index,   \* app.py:117
    interpretation,    \* app.py:123-130
    csv,               \* app.py:149, the rows handed to st.download_button
    nruns,             \* script runs of the session so far
    earlier            \* history: one earlier submission's input and result

vars == <<phase, typed, input, trigger, submitted, error, bmi, score, screening_index,
          interpretation, csv, nruns, earlier>>

locals == <<bmi, score, screening_index, interpretation, csv>>

----------------------------------------------------------------------------
(* Bounds of the model *)

\* Script runs one session makes before the model stops following it.
MaxRuns == 4

\* Sample values of each widget, inside the range the widget declares.  No
\* weight/height pair of the samples puts weight/(height/100)^2 exactly
\* halfway between two tenths, where the binary representation of the
\* operands decides which way Python's round goes.
Ages == {40, 65, 100}
Sexes == {"Female", "Male"}
Weights == {300, 700, 2000}
Heights == {1200, 1600, 2200}
Bmds == {0, 40, 71, 160}
Dates == {"2024-02-29", "2025-01-01"}

RiskFactors == {"prior_fracture", "parent_hip", "current_smoker", "glucocorticoids",
                "rheumatoid", "secondary_osteoporosis", "alcohol_3_more",
                "fall_in_last_year", "immobility"}

\* PatientInput over the sample values.
PatientInputs ==
    [age : Ages, sex : Sexes, weight : Weights, height_cm : Heights,
     femoral_neck_bmd : Bmds,
     prior_fracture : BOOLEAN, parent_hip : BOOLEAN, current_smoker : BOOLEAN,
     glucocorticoids : BOOLEAN, rheumatoid : BOOLEAN,
     secondary_osteoporosis : BOOLEAN, alcohol_3_more : BOOLEAN,
     fall_in_last_year : BOOLEAN, immobility : BOOLEAN]

----------------------------------------------------------------------------
(* The form, app.py:46-76 *)

AGE_MIN == 40
AGE_MAX == 100
AGE_VALUE == 65
WEIGHT_MIN == 300
WEIGHT_MAX == 2000
WEIGHT_VALUE == 700
HEIGHT_MIN == 1200
HEIGHT_MAX == 2200
HEIGHT_VALUE == 1600
BMD_MIN == 40
BMD_MAX == 160
BMD_VALUE == 0

\* The widgets' values when a session opens: each number_input's value=, the
\* selectbox's first option, every checkbox unchecked.
FormDefaults ==
    [age |-> AGE_VALUE, sex |-> "Female", weight |-> WEIGHT_VALUE,
     height_cm |-> HEIGHT_VALUE, femoral_neck_bmd |-> BMD_VALUE,
     prior_fracture |-> FALSE, parent_hip |-> FALSE, current_smoker |-> FALSE,
     glucocorticoids |-> FALSE, rheumatoid |-> FALSE,
     secondary_osteoporosis |-> FALSE, alcohol_3_more |-> FALSE,
     fall_in_last_year |-> FALSE, immobility |-> FALSE]

\* st.number_input(min_value, max_value, value): Streamlit raises
\* StreamlitAPIException when the default value lies outside
\* [min_value, max_value]; otherwise the widget returns what the browser
\* holds, which the widget keeps inside the range.
NumberInput(min_value, max_value, value, entered) ==
    IF value < min_value \/ value > max_value
    THEN [raised |-> TRUE, value |-> value]
    ELSE [raised |-> FALSE, value |-> entered]

\* The body of `with st.form("risk_form")`: the widgets in the order the
\* script creates them, up to the first that raises.  The submit button
\* (line 76) exists only when every widget before it was created.
risk_form(in) ==
    LET a == NumberInput(AGE_MIN, AGE_MAX, AGE_VALUE, in.age)
        w == NumberInput(WEIGHT_MIN, WEIGHT_MAX, WEIGHT_VALUE, in.weight)
        h == NumberInput(HEIGHT_MIN, HEIGHT_MAX, HEIGHT_VALUE, in.height_cm)
        d == NumberInput(BMD_MIN, BMD_MAX, BMD_VALUE, in.femoral_neck_bmd)
    IN  [raised |-> a.raised \/ w.raised \/ h.raised \/ d.raised,
         bmi_shown |-> ~(a.raised \/ w.raised \/ h.raised),
         values |-> [in EXCEPT !.age = a.value, !.weight = w.value,
                               !.height_cm = h.value,
                               !.femoral_neck_bmd = d.value]]

----------------------------------------------------------------------------
(* The scoring code, app.py:56 and app.py:81-130 *)

AGE_WEIGHT == 120
SEX_MALE_WEIGHT == -100
BMI_WEIGHT == -50
PRIOR_FRACTURE_WEIGHT == 1200
PARENT_HIP_WEIGHT == 700
SMOKER_WEIGHT == 600
GLUCOCORTICOSTEROID_WEIGHT == 900
RHEUMATOID_WEIGHT == 800
SECONDARY_OSTEOPOROSIS_WEIGHT == 900
ALCOHOL_WEIGHT == 500
FALL_WEIGHT == 800
IMMOBILITY_WEIGHT == 1000
BMD_WEIGHT == -2500
BASELINE == -6000

\* round(num/den) to the nearest integer, an exact half to the even one, as
\* Python's round does.
RoundHalfEven(num, den) ==
    LET q == num \div den
        r == num % den
    IN  IF 2 * r < den THEN q
        ELSE IF 2 * r > den THEN q + 1
        ELSE IF q % 2 = 0 THEN q ELSE q + 1

\* A plausible slip: the quotient cut to one decimal instead of rounded.
Bmi_truncated(weight, height_cm) == (weight * 1000000) \div (height_cm * height_cm)

\* app.py:56  bmi = round(weight / ((height_cm/100)**2), 1), in tenths:
\* 10 * (weight/10) / (height_cm/1000)^2 = weight * 10^6 / height_cm^2.
Bmi(weight, height_cm) == RoundHalfEven(weight * 1000000, height_cm * height_cm)

\* int(flag), app.py:103-111
int(flag) == IF flag THEN 1 ELSE 0

\* A plausible slip: the sentinel test left out, the term always added.
BmdTerm_always(femoral_neck_bmd) == (BMD_WEIGHT * (femoral_neck_bmd - 70)) \div 100

\* app.py:112-113  the BMD term: femoral_neck_bmd is falsy at 0.0, so the
\* term is added only for a value above 0.  BMD_WEIGHT * (bmd - 0.7) in
\* thousandths, bmd in hundredths.
BmdTerm(femoral_neck_bmd) ==
    IF femoral_neck_bmd /= 0 /\ femoral_neck_bmd > 0
    THEN (BMD_WEIGHT * (femoral_neck_bmd - 70)) \div 100
    ELSE 0

\* A plausible slip: a copied line that still reads prior_fracture.
RiskFactorTerms_copied(in) ==
      PRIOR_FRACTURE_WEIGHT * int(in.prior_fracture)
    + PARENT_HIP_WEIGHT * int(in.parent_hip)
    + SMOKER_WEIGHT * int(in.prior_fracture)
    + GLUCOCORTICOSTEROID_WEIGHT * int(in.glucocorticoids)
    + RHEUMATOID_WEIGHT * int(in.rheumatoid)
    + SECONDARY_OSTEOPOROSIS_WEIGHT * int(in.secondary_osteoporosis)
    + ALCOHOL_WEIGHT * int(in.alcohol_3_more)
    + FALL_WEIGHT * int(in.fall_in_last_year)
    + IMMOBILITY_WEIGHT * int(in.immobility)

\* app.py:103-111
RiskFactorTerms(in) ==
      PRIOR_FRACTURE_WEIGHT * int(in.prior_fracture)
    + PARENT_HIP_WEIGHT * int(in.parent_hip)
    + SMOKER_WEIGHT * int(in.current_smoker)
    + GLUCOCORTICOSTEROID_WEIGHT * int(in.glucocorticoids)
    + RHEUMATOID_WEIGHT * int(in.rheumatoid)
    + SECONDARY_OSTEOPOROSIS_WEIGHT * int(in.secondary_osteoporosis)
    + ALCOHOL_WEIGHT * int(in.alcohol_3_more)
    + FALL_WEIGHT * int(in.fall_in_last_year)
    + IMMOBILITY_WEIGHT * int(in.immobility)

\* app.py:98-113  the linear predictor from `start` on, with the bmi of
\* line 56.  BMI_WEIGHT * (bmi - 25) in thousandths, bmi in tenths.
Accumulate(start, in, b) ==
      start
    + AGE_WEIGHT * (in.age - 40)
    + (IF in.sex = "Male" THEN SEX_MALE_WEIGHT ELSE 0)
    + (BMI_WEIGHT * (b - 250)) \div 10
    + RiskFactorTerms(in)
    + BmdTerm(in.femoral_neck_bmd)

\* app.py:98  score = BASELINE, then lines 99-113
LinearPredictor(in, b) == Accumulate(BASELINE, in, b)

\* app.py:116-117.  1/(1+exp(-score)) is not a decimal, so the two lines are
\* modelled by what they decide: round(prob_like*100, 1) >= k/10 exactly when
\* prob_like*1000 >= k - 1/2, that is when
\*     score >= ln((2k-1)/(2001-2k)),
\* and LogitHalf[k] is the least score in thousandths that satisfies it
\* (the logarithm is never a multiple of 0.001, so no tie arises).
LogitHalf ==
  <<
     -7600, -6500, -5988, -5651, -5399, -5197, -5029, -4885, -4759, -4646,
     -4545, -4453, -4369, -4291, -4219, -4151, -4087, -4027, -3971, -3917,
     -3866, -3817, -3771, -3726, -3684, -3643, -3603, -3565, -3528, -3493,
     -3459, -3425, -3393, -3362, -3331, -3302, -3273, -3245, -3217, -3191,
     -3165, -3139, -3114, -3090, -3066, -3043, -3020, -2998, -2976, -2955,
     -2933, -2913, -2893, -2873, -2853, -2834, -2815, -2796, -2778, -2760,
     -2742, -2725, -2708, -2691, -2674, -2657, -2641, -2625, -2609, -2594,
     -2579, -2563, -2548, -2534, -2519, -2505, -2490, -2476, -2462, -2449,
     -2435, -2422, -2408, -2395, -2382, -2369, -2357, -2344, -2332, -2319,
     -2307, -2295, -2283, -2271, -2259, -2248, -2236, -2225, -2214, -2202,
     -2191, -2180, -2169, -2158, -2148, -2137, -2127, -2116, -2106, -2095,
     -2085, -2075, -2065, -2055, -2045, -2035, -2026, -2016, -2006, -1997,
     -1987, -1978, -1968, -1959, -1950, -1941, -1932, -1923, -1914, -1905,
     -1896, -1887, -1879, -1870, -1861, -1853, -1844, -1836, -1827, -1819,
     -1811, -1802, -1794, -1786, -1778, -1770, -1762, -1754, -1746, -1738,
     -1730, -1722, -1715, -1707, -1699, -1692, -1684, -1676, -1669, -1661,
     -1654, -1647, -1639, -1632, -1625, -1617, -1610, -1603, -1596, -1589,
     -1582, -1575, -1568, -1561, -1554, -1547, -1540, -1533, -1526, -1519,
     -1512, -1506, -1499, -1492, -1486, -1479, -1472, -1466, -1459, -1453,
     -1446, -1440, -1433, -1427, -1421, -1414, -1408, -1401, -1395, -1389,
     -1383, -1376, -1370, -1364, -1358, -1352, -1346, -1340, -1333, -1327,
     -1321, -1315, -1309, -1303, -1298, -1292, -1286, -1280, -1274, -1268,
     -1262, -1256, -1251, -1245, -1239, -1233, -1228, -1222, -1216, -1211,
     -1205, -1199, -1194, -1188, -1183, -1177, -1171, -1166, -1160, -1155,
     -1149, -1144, -1139, -1133, -1128, -1122, -1117, -1111, -1106, -1101,
     -1095, -1090, -1085, -1080, -1074, -1069, -1064, -1059, -1053, -1048,
     -1043, -1038, -1033, -1027, -1022, -1017, -1012, -1007, -1002, -997,
     -992, -987, -981, -976, -971, -966, -961, -956, -951, -946,
     -941, -937, -932, -927, -922, -917, -912, -907, -902, -897,
     -892, -888, -883, -878, -873, -868, -864, -859, -854, -849,
     -844, -840, -835, -830, -825, -821, -816, -811, -807, -802,
     -797, -793, -788, -783, -779, -774, -769, -765, -760, -756,
     -751, -746, -742, -737, -733, -728, -724, -719, -714, -710,
     -705, -701, -696, -692, -687, -683, -678, -674, -669, -665,
     -661, -656, -652, -647, -643, -638, -634, -630, -625, -621,
     -616, -612, -608, -603, -599, -594, -590, -586, -581, -577,
     -573, -568, -564, -560, -555, -551, -547, -542, -538, -534,
     -530, -525, -521, -517, -512, -508, -504, -500, -495, -491,
     -487, -483, -478, -474, -470, -466, -462, -457, -453, -449,
     -445, -441, -436, -432, -428, -424, -420, -415, -411, -407,
     -403, -399, -395, -390, -386, -382, -378, -374, -370, -366,
     -361, -357, -353, -349, -345, -341, -337, -333, -328, -324,
     -320, -316, -312, -308, -304, -300, -296, -292, -287, -283,
     -279, -275, -271, -267, -263, -259, -255, -251, -247, -243,
     -239, -235, -231, -226, -222, -218, -214, -210, -206, -202,
     -198, -194, -190, -186, -182, -178, -174, -170, -166, -162,
     -158, -154, -150, -146, -142, -138, -134, -130, -126, -122,
     -118, -114, -110, -106, -102, -98, -94, -90, -86, -82,
     -78, -74, -70, -66, -62, -58, -54, -50, -46, -42,
     -38, -34, -30, -26, -22, -18, -14, -10, -6, -2,
     3, 7, 11, 15, 19, 23, 27, 31, 35, 39,
     43, 47, 51, 55, 59, 63, 67, 71, 75, 79,
     83, 87, 91, 95, 99, 103, 107, 111, 115, 119,
     123, 127, 131, 135, 139, 143, 147, 151, 155, 159,
     163, 167, 171, 175, 179, 183, 187, 191, 195, 199,
     203, 207, 211, 215, 219, 223, 227, 232, 236, 240,
     244, 248, 252, 256, 260, 264, 268, 272, 276, 280,
     284, 288, 293, 297, 301, 305, 309, 313, 317, 321,
     325, 329, 334, 338, 342, 346, 350, 354, 358, 362,
     367, 371, 375, 379, 383, 387, 391, 396, 400, 404,
     408, 412, 416, 421, 425, 429, 433, 437, 442, 446,
     450, 454, 458, 463, 467, 471, 475, 479, 484, 488,
     492, 496, 501, 505, 509, 513, 518, 522, 526, 531,
     535, 539, 543, 548, 552, 556, 561, 565, 569, 574,
     578, 582, 587, 591, 595, 600, 604, 609, 613, 617,
     622, 626, 631, 635, 639, 644, 648, 653, 657, 662,
     666, 670, 675, 679, 684, 688, 693, 697, 702, 706,
     711, 715, 720, 725, 729, 734, 738, 743, 747, 752,
     757, 761, 766, 770, 775, 780, 784, 789, 794, 798,
     803, 808, 812, 817, 822, 826, 831, 836, 841, 845,
     850, 855, 860, 865, 869, 874, 879, 884, 889, 893,
     898, 903, 908, 913, 918, 923, 928, 933, 938, 942,
     947, 952, 957, 962, 967, 972, 977, 982, 988, 993,
     998, 1003, 1008, 1013, 1018, 1023, 1028, 1034, 1039, 1044,
     1049, 1054, 1060, 1065, 1070, 1075, 1081, 1086, 1091, 1096,
     1102, 1107, 1112, 1118, 1123, 1129, 1134, 1140, 1145, 1150,
     1156, 1161, 1167, 1172, 1178, 1184, 1189, 1195, 1200, 1206,
     1212, 1217, 1223, 1229, 1234, 1240, 1246, 1252, 1257, 1263,
     1269, 1275, 1281, 1287, 1293, 1299, 1304, 1310, 1316, 1322,
     1328, 1334, 1341, 1347, 1353, 1359, 1365, 1371, 1377, 1384,
     1390, 1396, 1402, 1409, 1415, 1422, 1428, 1434, 1441, 1447,
     1454, 1460, 1467, 1473, 1480, 1487, 1493, 1500, 1507, 1513,
     1520, 1527, 1534, 1541, 1548, 1555, 1562, 1569, 1576, 1583,
     1590, 1597, 1604, 1611, 1618, 1626, 1633, 1640, 1648, 1655,
     1662, 1670, 1677, 1685, 1693, 1700, 1708, 1716, 1723, 1731,
     1739, 1747, 1755, 1763, 1771, 1779, 1787, 1795, 1803, 1812,
     1820, 1828, 1837, 1845, 1854, 1862, 1871, 1880, 1888, 1897,
     1906, 1915, 1924, 1933, 1942, 1951, 1960, 1969, 1979, 1988,
     1998, 2007, 2017, 2027, 2036, 2046, 2056, 2066, 2076, 2086,
     2096, 2107, 2117, 2128, 2138, 2149, 2159, 2170, 2181, 2192,
     2203, 2215, 2226, 2237, 2249, 2260, 2272, 2284, 2296, 2308,
     2320, 2333, 2345, 2358, 2370, 2383, 2396, 2409, 2423, 2436,
     2450, 2463, 2477, 2491, 2506, 2520, 2535, 2549, 2564, 2580,
     2595, 2610, 2626, 2642, 2658, 2675, 2692, 2709, 2726, 2743,
     2761, 2779, 2797, 2816, 2835, 2854, 2874, 2894, 2914, 2934,
     2956, 2977, 2999, 3021, 3044, 3067, 3091, 3115, 3140, 3166,
     3192, 3218, 3246, 3274, 3303, 3332, 3363, 3394, 3426, 3460,
     3494, 3529, 3566, 3604, 3644, 3685, 3727, 3772, 3818, 3867,
     3918, 3972, 4028, 4088, 4152, 4220, 4292, 4370, 4454, 4546,
     4647, 4760, 4886, 5030, 5198, 5400, 5652, 5989, 6501, 7601
  >>

\* How many of the 1000 thresholds lie at or below s: LogitHalf is
\* increasing, so a bisection of lo..hi finds the count.
RECURSIVE Bisect(_, _, _)
Bisect(s, lo, hi) ==
    IF lo = hi THEN lo
    ELSE LET mid == (lo + hi + 1) \div 2
         IN  IF LogitHalf[mid] <= s THEN Bisect(s, mid, hi)
                                    ELSE Bisect(s, lo, mid - 1)

\* A plausible slip: exp(score) for exp(-score).
ScreeningIndex_signflip(s) == Bisect(-s, 0, Len(LogitHalf))

\* A plausible slip: the score itself scaled, prob_like never used
\* (round(score * 100, 1), in tenths).
ScreeningIndex_nologistic(s) == s

\* app.py:116-117  screening_index = round(100/(1+exp(-score)), 1), in tenths
ScreeningIndex(s) == Bisect(s, 0, Len(LogitHalf))

Low == "Low (screening only)."
Mild == "Mild (consider bone densitometry if other concerns)."
Moderate == "Moderate (consider referral for further assessment / DXA)."
High == "High (refer for DXA and specialist assessment)."

\* A plausible slip: <= for <.
Interpretation_inclusive(index) ==
    IF index <= 100 THEN Low
    ELSE IF index <= 200 THEN Mild
    ELSE IF index <= 350 THEN Moderate
    ELSE High

\* app.py:123-130
Interpretation(index) ==
    IF index < 100 THEN Low
    ELSE IF index < 200 THEN Mild
    ELSE IF index < 350 THEN Moderate
    ELSE High

----------------------------------------------------------------------------
(* The export, app.py:136-150 *)

\* str of an int
StrInt(n) == ToString(n)

\* The text pandas writes for a float with one decimal, n in tenths.
StrTenths(n) == ToString(n \div 10) \o "." \o ToString(n % 10)

\* The text pandas writes for a float with two decimals, n in hundredths:
\* the shortest that reads back, so 0.70 is "0.7" and 0.05 is "0.05".
StrHundredths(n) ==
    IF n % 10 = 0 THEN StrTenths(n \div 10)
    ELSE ToString(n \div 100) \o "." \o ToString((n % 100) \div 10) \o ToString(n % 10)

\* app.py:137-147  the columns of user_data in insertion order, one value each
user_data(today, in, b, index, label) ==
    << <<"date", today>>,
       <<"age", StrInt(in.age)>>,
       <<"sex", in.sex>>,
       <<"weight_kg", StrTenths(in.weight)>>,
       <<"height_cm", StrTenths(in.height_cm)>>,
       <<"bmi", StrTenths(b)>>,
       <<"femoral_neck_bmd", StrHundredths(in.femoral_neck_bmd)>>,
       <<"screening_index", StrTenths(index)>>,
       <<"interpretation", label>> >>

\* A plausible slip: index=False left out, so the frame's index is written
\* as a first column.
to_csv_indexed(data) ==
    << <<"">> \o [i \in 1..Len(data) |-> data[i][1]],
       <<"0">> \o [i \in 1..Len(data) |-> data[i][2]] >>

\* app.py:148-149  pd.DataFrame(user_data).to_csv(index=False): the header
\* row of column names, then one row per entry of the columns' lists (one),
\* each row a sequence of cells.
to_csv(data) ==
    << [i \in 1..Len(data) |-> data[i][1]],
       [i \in 1..Len(data) |-> data[i][2]] >>

----------------------------------------------------------------------------
(* One run of the script *)

Unbound == <<>>

\* app.py:56 and app.py:96-150 for widget values `in`, the submit button's
\* return value `sub` and date.today() = today.  Every run binds its locals
\* afresh; the body of `if submitted` binds score, screening_index,
\* interpretation and csv, and a run that skips it leaves them unbound.
ScriptBody(in, sub, today) ==
    LET b == Bmi(in.weight, in.height_cm)
        s == LinearPredictor(in, b)
        index == ScreeningIndex(s)
        label == Interpretation(index)
    IN  /\ submitted' = sub
        /\ error' = Unbound
        /\ bmi' = <<b>>
        /\ IF sub
           THEN /\ score' = <<s>>
                /\ screening_index' = <<index>>
                /\ interpretation' = <<label>>
                /\ csv' = to_csv(user_data(today, in, b, index, label))
           ELSE /\ score' = Unbound
                /\ screening_index' = Unbound
                /\ interpretation' = Unbound
                /\ csv' = Unbound

\* The whole script, app.py:30-158, on the session's widget values: the form
\* first, and the rest only if no widget raised.  An exception ends the run
\* where it is raised: what was bound before stays bound for the run (bmi,
\* when the widgets it reads exist), nothing after it is.
Script(trig) ==
    LET form == risk_form(input)
    IN  /\ trigger' = trig
        /\ phase' = "rendered"
        /\ nruns' = nruns + 1
        /\ IF form.raised
           THEN /\ error' = <<"StreamlitAPIException">>
                /\ submitted' = FALSE
                /\ bmi' = IF form.bmi_shown
                          THEN <<Bmi(form.values.weight, form.values.height_cm)>>
                          ELSE Unbound
                /\ score' = Unbound
                /\ screening_index' = Unbound
                /\ interpretation' = Unbound
                /\ csv' = Unbound
           ELSE \E today \in Dates : ScriptBody(form.values, trig = "submit", today)

----------------------------------------------------------------------------
(* Spec: the application as written.  A session opens, the script runs, the *)
(* user types into the widgets the run created, and the script runs again   *)
(* when the browser asks for a rerun.  Widgets inside st.form send nothing  *)
(* to the script until the form's submit button is pressed, so typing       *)
(* changes `typed` alone; the button is created at line 76.                 *)

\* The widgets the last run created, in the browser: those before the first
\* that raised.
Created ==
    IF phase /= "rendered" THEN {}
    ELSE IF error = Unbound THEN DOMAIN FormDefaults \cup {"submit"}
    ELSE {"age", "sex", "weight", "height_cm"}

Init ==
    /\ phase = "connected"
    /\ input = FormDefaults
    /\ typed = FormDefaults
    /\ trigger = "none"
    /\ submitted = FALSE
    /\ error = Unbound
    /\ bmi = Unbound
    /\ score = Unbound
    /\ screening_index = Unbound
    /\ interpretation = Unbound
    /\ csv = Unbound
    /\ nruns = 0
    /\ earlier = Unbound

\* The first run of a session.
Load ==
    /\ phase = "connected"
    /\ Script("load")
    /\ UNCHANGED <<input, typed, earlier>>

\* A rerun the browser asks for (the Rerun menu entry, the R key).
Rerun ==
    /\ phase = "rendered"
    /\ nruns < MaxRuns
    /\ Script("rerun")
    /\ UNCHANGED <<input, typed, earlier>>

\* The values the user can put into one widget.
Choices(f) ==
    CASE f = "age" -> Ages
      [] f = "sex" -> Sexes
      [] f = "weight" -> Weights
      [] f = "height_cm" -> Heights
      [] f = "femoral_neck_bmd" -> Bmds
      [] OTHER -> BOOLEAN

\* The user changes one widget of the form in the browser.
EditForm ==
    /\ phase = "rendered"
    /\ \E f \in Created \ {"submit"} : \E v \in Choices(f) :
          /\ v /= typed[f]
          /\ typed' = [typed EXCEPT ![f] = v]
    /\ UNCHANGED <<phase, input, trigger, submitted, error, locals, nruns, earlier>>

Next == Load \/ Rerun \/ EditForm

Spec == Init /\ [][Next]_vars

----------------------------------------------------------------------------
(* SpecEngine: the scoring code as a function of PatientInput.  The form's  *)
(* values are drawn from the declared domains (the sample values above),    *)
(* and one step runs app.py:96-150 on them.                                 *)

InitEngine ==
    /\ phase = "submitted"
    /\ input \in PatientInputs
    /\ typed = input
    /\ trigger = "submit"
    /\ submitted = FALSE
    /\ error = Unbound
    /\ bmi = Unbound
    /\ score = Unbound
    /\ screening_index = Unbound
    /\ interpretation = Unbound
    /\ csv = Unbound
    /\ nruns = 0
    /\ earlier = Unbound

computeScreening ==
    /\ phase = "submitted"
    /\ \E today \in Dates : ScriptBody(input, TRUE, today)
    /\ phase' = "rendered"
    /\ nruns' = nruns + 1
    /\ UNCHANGED <<input, typed, trigger, earlier>>

NextEngine == computeScreening

SpecEngine == InitEngine /\ [][NextEngine]_vars

----------------------------------------------------------------------------
(* SpecBands: app.py:122-130 on every screening_index a rounding to one     *)
(* decimal of a value in [0, 100] can give.                                 *)

INDEX_MAX == 1000

InitBands ==
    /\ phase = "bands"
    /\ input = FormDefaults
    /\ typed = FormDefaults
    /\ trigger = "submit"
    /\ submitted = TRUE
    /\ error = Unbound
    /\ bmi = Unbound
    /\ score = Unbound
    /\ screening_index \in {<<i>> : i \in 0..INDEX_MAX}
    /\ interpretation = Unbound
    /\ csv = Unbound
    /\ nruns = 0
    /\ earlier = Unbound

interpretation_bands ==
    /\ phase = "bands"
    /\ interpretation' = <<Interpretation(screening_index[1])>>
    /\ phase' = "rendered"
    /\ UNCHANGED <<input, typed, trigger, submitted, error, bmi, score,
                   screening_index, csv, nruns, earlier>>

NextBands == interpretation_bands

SpecBands == InitBands /\ [][NextBands]_vars

----------------------------------------------------------------------------
(* SpecSession: the script runs of one session whose form hands the script  *)
(* values of the declared domains.  A submission is one step: the form's    *)
(* widgets send nothing until the button is pressed, so the step carries    *)
(* the values typed since the last run and the run they trigger.           *)

\* Every (widget, value) the user can set.
Settings == UNION { {<<f, v>> : v \in Choices(f)} : f \in DOMAIN FormDefaults }

\* The forms one change of one widget away from `in`, and `in` itself
\* (any form is some number of such submissions away).
Edits(in) == {in} \cup { [in EXCEPT ![fv[1]] = fv[2]] : fv \in Settings }

\* History for the comparison of two submissions: the record kept is either
\* the one kept so far or the submission whose result the page shows now.
Shown ==
    IF score = Unbound THEN {}
    ELSE {<<[input |-> input, score |-> score[1],
             screening_index |-> screening_index[1],
             interpretation |-> interpretation[1], run |-> nruns]>>}

\* The first run of a session: nothing was pressed.
LoadPage ==
    /\ phase = "connected"
    /\ \E today \in Dates : ScriptBody(input, FALSE, today)
    /\ phase' = "rendered"
    /\ trigger' = "load"
    /\ nruns' = nruns + 1
    /\ UNCHANGED <<input, typed, earlier>>

\* A plausible slip: a score kept across runs (a module-level or
\* session-state accumulator), so a run starts from the score on the page.
SubmitForm_accumulating ==
    /\ phase = "rendered"
    /\ nruns < MaxRuns
    /\ \E new \in Edits(typed) : \E today \in Dates :
          LET b == Bmi(new.weight, new.height_cm)
              s == Accumulate(IF score = Unbound THEN BASELINE ELSE score[1], new, b)
              index == ScreeningIndex(s)
              label == Interpretation(index)
          IN  /\ typed' = new
              /\ input' = new
              /\ submitted' = TRUE
              /\ error' = Unbound
              /\ bmi' = <<b>>
              /\ score' = <<s>>
              /\ screening_index' = <<index>>
              /\ interpretation' = <<label>>
              /\ csv' = to_csv(user_data(today, new, b, index, label))
    /\ phase' = "rendered"
    /\ trigger' = "submit"
    /\ nruns' = nruns + 1
    /\ earlier' \in {earlier} \cup Shown

\* The user presses "Calculate screening score" (app.py:76): the browser
\* sends the form's values and the script runs with submitted = True.
SubmitForm ==
    /\ phase = "rendered"
    /\ nruns < MaxRuns
    /\ \E new \in Edits(typed) : \E today \in Dates :
          /\ typed' = new
          /\ input' = new
          /\ ScriptBody(new, TRUE, today)
    /\ phase' = "rendered"
    /\ trigger' = "submit"
    /\ nruns' = nruns + 1
    /\ earlier' \in {earlier} \cup Shown

\* What a run not caused by the form's button can be caused by: a rerun the
\* browser asks for, or the download button (app.py:150) when the page has it.
OtherTriggers == {"rerun"} \cup (IF csv = Unbound THEN {} ELSE {"download"})

\* A plausible slip: the result kept for the next run (cached in session
\* state), so a run that skips `if submitted` still shows it.
OtherRun_retaining ==
    /\ phase = "rendered"
    /\ nruns < MaxRuns
    /\ \E trig \in OtherTriggers : trigger' = trig
    /\ submitted' = FALSE
    /\ phase' = "rendered"
    /\ nruns' = nruns + 1
    /\ UNCHANGED <<input, typed, earlier, error, locals>>

\* A run of the session caused by anything but the form's button: the
\* widgets return the values last submitted, and submitted is False.
OtherRun ==
    /\ phase = "rendered"
    /\ nruns < MaxRuns
    /\ \E trig \in OtherTriggers : trigger' = trig
    /\ \E today \in Dates : ScriptBody(input, FALSE, today)
    /\ phase' = "rendered"
    /\ nruns' = nruns + 1
    /\ UNCHANGED <<input, typed, earlier>>

NextSession == LoadPage \/ SubmitForm \/ OtherRun

SpecSession == Init /\ [][NextSession]_vars

----------------------------------------------------------------------------
(* Claims *)

Abs(x) == IF x < 0 THEN -x ELSE x

\* End-to-end example 1 of the specification, and example 2.
Example1 == [FormDefaults EXCEPT !.age = 65, !.sex = "Female", !.weight = 700,
                                 !.height_cm = 1600, !.femoral_neck_bmd = 0]
Example2 == [Example1 EXCEPT !.prior_fracture = TRUE, !.parent_hip = TRUE]

\* The form with the value of one widget replaced.
With(in, f, v) == [in EXCEPT ![f] = v]

\* The predictor and the index the scoring code gives a form.
PredictorOf(in) == LinearPredictor(in, Bmi(in.weight, in.height_cm))
IndexOf(in) == ScreeningIndex(PredictorOf(in))

\* C1: every screening_index from 0.0 to 100.0 gets the label of its
\* half-open band: below 10 Low, from 10 to below 20 Mild, from 20 to below
\* 35 Moderate, from 35 on High; 9.9 is Low, 10.0 Mild, 20.0 Moderate,
\* 34.9 Moderate, 35.0 High; and the label is one of the four.
C1_Bands ==
    interpretation /= Unbound =>
        LET i == screening_index[1]
            l == interpretation[1]
        IN  /\ l \in {"Low (screening only).",
                      "Mild (consider bone densitometry if other concerns).",
                      "Moderate (consider referral for further assessment / DXA).",
                      "High (refer for DXA and specialist assessment)."}
            /\ (l = "Low (screening only).") = (i < 100)
            /\ (l = "Mild (consider bone densitometry if other concerns).")
                   = (100 <= i /\ i < 200)
            /\ (l = "Moderate (consider referral for further assessment / DXA).")
                   = (200 <= i /\ i < 350)
            /\ (l = "High (refer for DXA and specialist assessment).") = (i >= 350)
            /\ (i = 99 => l = "Low (screening only).")
            /\ (i = 349 =>
                   l = "Moderate (consider referral for further assessment / DXA).")

\* C1's case: the index exactly 10.0 has been given its label, Mild.
C1_Witness ==
    /\ phase = "rendered"
    /\ screening_index = <<100>>
    /\ interpretation = <<"Mild (consider bone densitometry if other concerns).">>

\* C2: the predictor of a submission is -6.0 + 0.12 (age - 40) - 0.10 for
\* Male - 0.05 (bmi - 25) + the weights of the risk factors set + the BMD
\* term, where bmi is weight/(height/100)^2 rounded to the nearest tenth and
\* is the very value exported; example 1 gives bmi 27.3 and -3.115, example
\* 2 gives -1.215.
C2_Predictor ==
    score /= Unbound =>
        LET in == input
            b == bmi[1]
            num == in.weight * 1000000
            den == in.height_cm * in.height_cm
        IN  /\ 2 * Abs(num - b * den) <= den
            /\ csv[2][6] = StrTenths(b)
            /\ score[1] = -6000 + 120 * (in.age - 40)
                          + (IF in.sex = "Male" THEN -100 ELSE 0)
                          - 5 * (b - 250)
                          + (IF in.prior_fracture THEN 1200 ELSE 0)
                          + (IF in.parent_hip THEN 700 ELSE 0)
                          + (IF in.current_smoker THEN 600 ELSE 0)
                          + (IF in.glucocorticoids THEN 900 ELSE 0)
                          + (IF in.rheumatoid THEN 800 ELSE 0)
                          + (IF in.secondary_osteoporosis THEN 900 ELSE 0)
                          + (IF in.alcohol_3_more THEN 500 ELSE 0)
                          + (IF in.fall_in_last_year THEN 800 ELSE 0)
                          + (IF in.immobility THEN 1000 ELSE 0)
                          + (IF in.femoral_neck_bmd > 0
                             THEN -25 * (in.femoral_neck_bmd - 70) ELSE 0)
            /\ (in = Example1 => b = 273 /\ score[1] = -3115)
            /\ (in = Example2 => b = 273 /\ score[1] = -1215)

\* C2's case: example 2 has been submitted and scored.
C2_Witness == input = Example2 /\ score = <<-1215>> /\ bmi = <<273>>

\* C3: with femoral_neck_bmd = 0.0 the predictor is the sum of the other
\* terms alone; with a value above 0 it is that sum plus -2.5 (bmd - 0.7),
\* once.
C3_BmdSentinel ==
    score /= Unbound =>
        LET in == input
            others == BASELINE + AGE_WEIGHT * (in.age - 40)
                      + (IF in.sex = "Male" THEN SEX_MALE_WEIGHT ELSE 0)
                      + (BMI_WEIGHT * (bmi[1] - 250)) \div 10
                      + RiskFactorTerms(in)
        IN  /\ in.femoral_neck_bmd = 0 => score[1] = others
            /\ in.femoral_neck_bmd > 0 =>
                   score[1] = others - 25 * (in.femoral_neck_bmd - 70)

\* C3's case: a submission without BMD, with other terms present, scored.
C3_Witness ==
    /\ score /= Unbound
    /\ input.femoral_neck_bmd = 0
    /\ input.prior_fracture /\ input.sex = "Male" /\ input.age = 100

\* C4: all else equal, a higher age gives a strictly higher predictor, a
\* higher femoral_neck_bmd (both values above 0) a strictly lower one, and
\* any risk factor set from false to true a strictly higher one.
C4_PredictorMonotone ==
    score /= Unbound =>
        /\ \A a \in AGE_MIN..AGE_MAX :
              a > input.age => PredictorOf(With(input, "age", a)) > score[1]
        /\ \A d \in BMD_MIN..BMD_MAX :
              (input.femoral_neck_bmd > 0 /\ d > input.femoral_neck_bmd)
                  => PredictorOf(With(input, "femoral_neck_bmd", d)) < score[1]
        /\ \A f \in RiskFactors :
              ~input[f] => PredictorOf(With(input, f, TRUE)) > score[1]

\* C4's case: a scored submission that all three comparisons apply to.
C4_Witness ==
    /\ score /= Unbound
    /\ input.age = 40
    /\ input.femoral_neck_bmd = 71
    /\ \A f \in RiskFactors : ~input[f]

\* C5 as stated: all else equal, a higher age gives a strictly higher
\* screening_index, and so does any risk factor set from false to true.
C5_IndexStrictlyIncreasing ==
    screening_index /= Unbound =>
        /\ \A a \in AGE_MIN..AGE_MAX :
              a > input.age => IndexOf(With(input, "age", a)) > screening_index[1]
        /\ \A f \in RiskFactors :
              ~input[f] => IndexOf(With(input, f, TRUE)) > screening_index[1]

\* C5 as amended: all else equal, a higher age never gives a lower
\* screening_index, nor does any risk factor set from false to true.
C5_IndexNeverDecreases ==
    screening_index /= Unbound =>
        /\ \A a \in AGE_MIN..AGE_MAX :
              a > input.age => IndexOf(With(input, "age", a)) >= screening_index[1]
        /\ \A f \in RiskFactors :
              ~input[f] => IndexOf(With(input, f, TRUE)) >= screening_index[1]

\* C5's case: age 40 with the other defaults scores 0.2, as age 41 does,
\* and age 65 scores more.
C5_Witness ==
    /\ input = With(FormDefaults, "age", 40)
    /\ screening_index = <<2>>
    /\ IndexOf(With(input, "age", 41)) = 2
    /\ IndexOf(With(input, "age", 65)) > 2

\* C6: the screening_index of every submission is a whole number of tenths
\* from 0.0 to 100.0.
C6_IndexRange ==
    screening_index /= Unbound =>
        /\ screening_index[1] \in Int
        /\ 0 <= screening_index[1]
        /\ screening_index[1] <= 1000

\* C6's case: the highest-scoring form of the domains has been scored, at
\* the top of the range.
C6_Witness ==
    /\ screening_index = <<1000>>
    /\ input.age = 100 /\ input.weight = 300 /\ input.height_cm = 2200
    /\ input.femoral_neck_bmd = 40
    /\ \A f \in RiskFactors : input[f]

\* C8: a submission's export is the header row date, age, sex, weight_kg,
\* height_cm, bmi, femoral_neck_bmd, screening_index, interpretation and one
\* data row, whose cells are the date, the submitted inputs, and the bmi,
\* index and label of that same computation; example 1 exports 65, Female,
\* 70.0, 160.0, 27.3, 0.0, 4.2, Low (screening only).
C8_Export ==
    /\ (submitted /\ error = Unbound) => csv /= Unbound
    /\ csv /= Unbound =>
        /\ Len(csv) = 2
        /\ csv[1] = <<"date", "age", "sex", "weight_kg", "height_cm", "bmi",
                      "femoral_neck_bmd", "screening_index", "interpretation">>
        /\ Len(csv[2]) = 9
        /\ csv[2][1] \in Dates
        /\ csv[2][2] = ToString(input.age)
        /\ csv[2][3] = input.sex
        /\ csv[2][4] = StrTenths(input.weight)
        /\ csv[2][5] = StrTenths(input.height_cm)
        /\ csv[2][6] = StrTenths(bmi[1])
        /\ csv[2][7] = StrHundredths(input.femoral_neck_bmd)
        /\ csv[2][8] = StrTenths(screening_index[1])
        /\ csv[2][9] = interpretation[1]
        /\ (input = Example1 =>
               SubSeq(csv[2], 2, 9) = <<"65", "Female", "70.0", "160.0", "27.3",
                                        "0.0", "4.2", "Low (screening only).">>)

\* C8's case: example 1 has been submitted and its export built.
C8_Witness == input = Example1 /\ csv /= Unbound /\ Len(csv) = 2

\* C9: a submission whose input equals that of an earlier submission of the
\* session shows the same predictor, index and label, whatever was submitted
\* or rerun in between.
C9_Deterministic ==
    (earlier /= Unbound /\ score /= Unbound /\ earlier[1].input = input) =>
        /\ earlier[1].score = score[1]
        /\ earlier[1].screening_index = screening_index[1]
        /\ earlier[1].interpretation = interpretation[1]

\* C9's case: an input submitted again with at least one other submission
\* in between (the record kept is of run 2, the page is of run 4).
C9_Witness ==
    /\ earlier /= Unbound /\ score /= Unbound
    /\ earlier[1].input = input
    /\ earlier[1].run = 2 /\ nruns = 4
    /\ input.prior_fracture

\* C10: a run shows a result and offers the export only when the form's
\* button caused it, and then the result is the one computed in that run
\* from the values submitted; any other run shows none of an earlier one.
C10_ResultOnlyOnSubmit ==
    /\ (score /= Unbound \/ screening_index /= Unbound
        \/ interpretation /= Unbound \/ csv /= Unbound)
          => (trigger = "submit" /\ submitted)
    /\ (phase = "rendered" /\ trigger = "submit") =>
          /\ submitted
          /\ input = typed
          /\ score = <<PredictorOf(typed)>>
          /\ screening_index /= Unbound /\ interpretation /= Unbound
          /\ csv /= Unbound /\ csv[2][2] = ToString(typed.age)
    /\ (phase = "rendered" /\ trigger /= "submit") =>
          /\ ~submitted
          /\ score = Unbound /\ screening_index = Unbound
          /\ interpretation = Unbound /\ csv = Unbound

\* C10's case: the download button was pressed on a page showing a
\* submission's result, and the run it caused shows none.
C10_Witness ==
    /\ phase = "rendered" /\ trigger = "download"
    /\ nruns = 3 /\ input /= FormDefaults
    /\ score = Unbound /\ csv = Unbound

\* C7: the collector accepts the form's initial state, BMD at its default
\* 0.0: a run of the script raises nothing and the form can be submitted.
C7_InitialFormAccepted ==
    phase = "rendered" => (error = Unbound /\ "submit" \in Created)
====
